---- MODULE Spec2Model ----
(***************************************************************************)
(* A model of the gasless permit-and-relay client: the retry wrapper, the  *)
(* task poller, the fee ceiling, the permit builder, the front end, the    *)
(* command-line scripts and splitSignature.  Each component is a state     *)
(* machine over its own variables; the specifications SpecRetry, SpecPoll, *)
(* SpecFee, SpecBuild, SpecFront, SpecCli and SpecSig run one component    *)
(* each, and Spec runs any one of them.  SpecRetryEnv and SpecPollNum run  *)
(* retry and the poller with the counts parseNumber can return, SpecPollLog *)
(* records the outcomes of the poller's queries, SpecJoin records the      *)
(* completion order of the metadata reads, and SpecFlows runs the front    *)
(* end and the scripts together.                                           *)
(***************************************************************************)
EXTENDS Integers, Sequences, FiniteSets, TLC

VARIABLES
    \* retry(fn, maxRetries, delayMs)
    maxRetries, maxRetriesHalf, fnScript, attempt, lastErr, retryPc, fnCalls,
    retrySleeps, retryResult,
    \* waitForTaskFinal(relay, taskId, maxAttempts, intervalMs)
    maxAttempts, maxAttemptsHalf, pollI, lastStatus, pollPc, pollQueries, pollSleeps, pollFailures,
    lastObs, pollResult, pollLog,
    \* maxFee = (estimatedFee * (10_000n + feeBufferBps)) / 10_000n
    feeVariant, feeBufferBps, estimatedFee, maxFee, feePc,
    \* buildPermitSignature(params), one call per element of Builds
    chainNonce, buildVariant, amountInput, buildPc, slotSt, slotVal, readFailed,
    signerRejected, readCount, signCount, signReq, buildErr, settleOrder,
    \* the front end (App.tsx and its older variant): configuration, React
    \* state, and the position and locals of the running handleSubmit
    frontVariant, relayApiKey, statusPolls, wallet, tokenLoaded, tokenBalance,
    frontAmountInput, logs, task, isSubmitting, error, frontPc, parsedAmount,
    frontI, frontCalls, frontObs,
    \* one run of a command-line script: environment, position in main,
    \* and what it has called, signed and submitted so far
    cliScript, cliEnvOk, cliTaskId, cliAmountInput, cliBalance, cliRetries, cliPolls,
    cliPc, cliAttempt, cliI, cliCalls, cliSigned, cliRequest, cliSubmitted, cliErr, cliExit,
    \* splitSignature(signature): the signed bytes, their hex text, the result
    sigBytes, sigInput, sigPc, sigOut

retryVars == <<maxRetries, maxRetriesHalf, fnScript, attempt, lastErr, retryPc, fnCalls,
               retrySleeps, retryResult>>
pollVars == <<maxAttempts, maxAttemptsHalf, pollI, lastStatus, pollPc, pollQueries, pollSleeps, pollFailures,
              lastObs, pollResult, pollLog>>
feeVars == <<feeVariant, feeBufferBps, estimatedFee, maxFee, feePc>>
buildVars == <<chainNonce, buildVariant, amountInput, buildPc, slotSt, slotVal, readFailed,
               signerRejected, readCount, signCount, signReq, buildErr, settleOrder>>
frontVars == <<frontVariant, relayApiKey, statusPolls, wallet, tokenLoaded, tokenBalance,
               frontAmountInput, logs, task, isSubmitting, error, frontPc, parsedAmount,
               frontI, frontCalls, frontObs>>
cliVars == <<cliScript, cliEnvOk, cliTaskId, cliAmountInput, cliBalance, cliRetries, cliPolls,
             cliPc, cliAttempt, cliI, cliCalls, cliSigned, cliRequest, cliSubmitted, cliErr,
             cliExit>>
sigVars == <<sigBytes, sigInput, sigPc, sigOut>>
vars == <<retryVars, pollVars, feeVars, buildVars, frontVars, cliVars, sigVars>>

\* JavaScript's undefined, for the string-valued slots of the model.
Undefined == "undefined"

(***************************************************************************)
(* Bounds of the model.                                                    *)
(***************************************************************************)
MaxRetries == 3
MaxAttempts == 3
MaxEstimatedFee == 12
MaxBufferSteps == 3
MaxNonce == 1
MaxAmount == 2
MaxBalance == 2
MaxStatusPolls == 2

(***************************************************************************)
(* retry                                                                   *)
(***************************************************************************)
\* What one invocation of fn does: resolve with a value, or reject with an
\* Error object or with undefined (Promise.reject()).
FnValues == {"v1"}
FnErrors == {"e1", "e2", Undefined}
FnOutcomes == [ok : {TRUE}, v : FnValues] \cup [ok : {FALSE}, v : FnErrors]

\* The sequences of outcomes fn produces on its successive invocations.
FnScripts == [1..(MaxRetries + 1) -> FnOutcomes]

\* The retry counts a caller passes: parseNumber returns any finite number.
RetryCounts == (-1)..MaxRetries

\* A finite JavaScript number that is a multiple of one half: whole + half/2
\* with half 0 or 1 (so -1 and 1 stand for -0.5, and 1 and 1 for 1.5).
Num(whole, half) == [whole |-> whole, half |-> half]
Whole(n) == Num(n, 0)

\* What Number(value) makes of the text of an environment variable: a finite
\* number, NaN ("abc") or Infinity ("Infinity"); the variable may be unset.
EnvNumber(n) == [kind |-> "number", num |-> n]
EnvUnset == [kind |-> "unset", num |-> Whole(0)]
EnvNaN == [kind |-> "NaN", num |-> Whole(0)]
EnvInfinity == [kind |-> "Infinity", num |-> Whole(0)]
RetriesEnvValues ==
    {EnvNumber(Num(w, h)) : w \in RetryCounts, h \in {0, 1}}
        \cup {EnvUnset, EnvNaN, EnvInfinity}

\* const n = value === undefined ? Number.NaN : Number(value);
\* return Number.isFinite(n) ? n : fallback;
ParseNumber(value, fallback) ==
    LET n == IF value.kind = "unset" THEN EnvNaN ELSE value
    IN  IF n.kind = "number" THEN n.num ELSE fallback

\* parseNumber(process.env.RELAY_RETRIES, 3)
DefaultRelayRetries == 3
RelayRetries(value) == ParseNumber(value, Whole(DefaultRelayRetries))

RetryIdle ==
    /\ maxRetries = 0
    /\ maxRetriesHalf = 0
    /\ fnScript = <<>>
    /\ attempt = 0
    /\ lastErr = Undefined
    /\ retryPc = "off"
    /\ fnCalls = 0
    /\ retrySleeps = 0
    /\ retryResult = Undefined

InitRetry ==
    /\ maxRetries \in RetryCounts
    /\ maxRetriesHalf = 0
    /\ fnScript \in FnScripts
    /\ attempt = 0
    /\ lastErr = Undefined
    /\ retryPc = "loop"
    /\ fnCalls = 0
    /\ retrySleeps = 0
    /\ retryResult = Undefined

\* retry called as the scripts call it, with the count parseNumber makes of
\* RELAY_RETRIES.
InitRetryEnv ==
    /\ \E value \in RetriesEnvValues :
          /\ maxRetries = RelayRetries(value).whole
          /\ maxRetriesHalf = RelayRetries(value).half
    /\ fnScript \in FnScripts
    /\ attempt = 0
    /\ lastErr = Undefined
    /\ retryPc = "loop"
    /\ fnCalls = 0
    /\ retrySleeps = 0
    /\ retryResult = Undefined

\* for (...; attempt <= maxRetries; ...), attempt an integer, maxRetries a
\* number
RetryLoopCond(a, m) == 2 * a <= 2 * m.whole + m.half

\* if (attempt === maxRetries) break;
RetryIsLastAttempt(a, m) == m.half = 0 /\ a = m.whole

\* console.warn(`... ${(err as Error).message ?? err}`): reading .message of
\* undefined throws a TypeError.
RetryWarnThrows(err) == err = Undefined

\* catch (err) { lastErr = err; ... }
RetryCatch_KeepFirst(err) == IF lastErr = Undefined THEN err ELSE lastErr
RetryCatch(err) == err

\* One pass of the loop body up to its next suspension: fn is invoked and
\* awaited; a value is returned at once, an error is remembered and either
\* ends the loop (throw lastErr) or is logged, which throws out of the catch
\* block or leads to the sleep.
RetryAttempt ==
    /\ retryPc = "loop"
    /\ RetryLoopCond(attempt, Num(maxRetries, maxRetriesHalf))
    /\ fnCalls < Len(fnScript)
    /\ fnCalls' = fnCalls + 1
    /\ LET out == fnScript[fnCalls + 1] IN
         IF out.ok
         THEN /\ retryPc' = "returned"
              /\ retryResult' = out.v
              /\ UNCHANGED lastErr
         ELSE /\ lastErr' = RetryCatch(out.v)
              /\ IF RetryIsLastAttempt(attempt, Num(maxRetries, maxRetriesHalf))
                 THEN retryPc' = "thrown" /\ retryResult' = lastErr'
                 ELSE IF RetryWarnThrows(out.v)
                 THEN retryPc' = "thrown" /\ retryResult' = "TypeError"
                 ELSE retryPc' = "sleep" /\ UNCHANGED retryResult
    /\ UNCHANGED <<maxRetries, maxRetriesHalf, fnScript, attempt, retrySleeps>>
    /\ UNCHANGED <<pollVars, feeVars, buildVars, frontVars, cliVars, sigVars>>

\* await sleep(delayMs); then attempt++
RetrySleep ==
    /\ retryPc = "sleep"
    /\ retrySleeps' = retrySleeps + 1
    /\ attempt' = attempt + 1
    /\ retryPc' = "loop"
    /\ UNCHANGED <<maxRetries, maxRetriesHalf, fnScript, lastErr, fnCalls, retryResult>>
    /\ UNCHANGED <<pollVars, feeVars, buildVars, frontVars, cliVars, sigVars>>

\* The loop condition fails: throw lastErr.
RetryLoopExit ==
    /\ retryPc = "loop"
    /\ ~RetryLoopCond(attempt, Num(maxRetries, maxRetriesHalf))
    /\ retryPc' = "thrown"
    /\ retryResult' = lastErr
    /\ UNCHANGED <<maxRetries, maxRetriesHalf, fnScript, attempt, lastErr, fnCalls, retrySleeps>>
    /\ UNCHANGED <<pollVars, feeVars, buildVars, frontVars, cliVars, sigVars>>

NextRetry == RetryAttempt \/ RetrySleep \/ RetryLoopExit

(***************************************************************************)
(* waitForTaskFinal                                                        *)
(***************************************************************************)
TERMINAL_STATES_NoCancelledByUser ==
    {"ExecSuccess", "ExecReverted", "Cancelled", "Blacklisted", "NotFound", "Reverted"}
TERMINAL_STATES ==
    {"ExecSuccess", "ExecReverted", "Cancelled", "Blacklisted", "NotFound", "Reverted",
     "CancelledByUser"}

\* The task states the relay reports: those of the vocabulary, pending ones,
\* or none.
RelayTaskStates ==
    {"ExecSuccess", "ExecReverted", "Cancelled", "Blacklisted", "NotFound", "Reverted",
     "CancelledByUser", "CheckPending", "ExecPending"}
TaskStates == RelayTaskStates \cup {Undefined}
TxHashes == {Undefined, "", "0xabc"}

\* What getTaskStatus(taskId) does: resolve with a response, resolve with
\* undefined, or reject.
StatusResponses == [kind : {"response"}, taskState : TaskStates, transactionHash : TxHashes]
NoStatus == [kind |-> "undefined", taskState |-> Undefined, transactionHash |-> Undefined]
QueryFailed == [kind |-> "error", taskState |-> Undefined, transactionHash |-> Undefined]
QueryOutcomes == StatusResponses \cup {NoStatus, QueryFailed}

\* The outcomes of the queries made so far, in order; NoLog where a
\* specification does not record them.
NoLog == <<[kind |-> "unrecorded", taskState |-> Undefined, transactionHash |-> Undefined]>>

\* The attempt counts a caller passes.
AttemptCounts == (-1)..MaxAttempts

\* JavaScript truthiness of a string-or-undefined slot.
Truthy(s) == s # Undefined /\ s # ""

PollIdle ==
    /\ maxAttempts = 0
    /\ maxAttemptsHalf = 0
    /\ pollI = 0
    /\ lastStatus = NoStatus
    /\ pollPc = "off"
    /\ pollQueries = 0
    /\ pollSleeps = 0
    /\ pollFailures = 0
    /\ lastObs = NoStatus
    /\ pollResult = NoStatus
    /\ pollLog = NoLog

InitPoll ==
    /\ maxAttempts \in AttemptCounts
    /\ maxAttemptsHalf = 0
    /\ pollI = 0
    /\ lastStatus = NoStatus
    /\ pollPc = "loop"
    /\ pollQueries = 0
    /\ pollSleeps = 0
    /\ pollFailures = 0
    /\ lastObs = NoStatus
    /\ pollResult = NoStatus
    /\ pollLog = NoLog

\* waitForTaskFinal called with any finite number, as parseNumber makes it of
\* STATUS_POLL_MAX_ATTEMPTS: maxAttempts + maxAttemptsHalf/2.
InitPollNum ==
    /\ maxAttempts \in AttemptCounts
    /\ maxAttemptsHalf \in {0, 1}
    /\ pollI = 0
    /\ lastStatus = NoStatus
    /\ pollPc = "loop"
    /\ pollQueries = 0
    /\ pollSleeps = 0
    /\ pollFailures = 0
    /\ lastObs = NoStatus
    /\ pollResult = NoStatus
    /\ pollLog = NoLog

\* waitForTaskFinal with the outcomes of its queries recorded.
InitPollLog ==
    /\ maxAttempts \in AttemptCounts
    /\ maxAttemptsHalf = 0
    /\ pollI = 0
    /\ lastStatus = NoStatus
    /\ pollPc = "loop"
    /\ pollQueries = 0
    /\ pollSleeps = 0
    /\ pollFailures = 0
    /\ lastObs = NoStatus
    /\ pollResult = NoStatus
    /\ pollLog = <<>>

\* for (...; i < maxAttempts; ...), i an integer, maxAttempts a number
PollLoopCond_OneShort(i, m) == 2 * (i + 1) < 2 * m.whole + m.half
PollLoopCond(i, m) == 2 * i < 2 * m.whole + m.half

\* if (txHash || (state && TERMINAL_STATES.has(String(state))))
IsFinal(status) ==
    \/ Truthy(status.transactionHash)
    \/ (Truthy(status.taskState) /\ status.taskState \in TERMINAL_STATES)

\* catch (err) { console.error(...) }: where the loop body goes after a
\* rejected query.
PollAfterFailure_Rethrow == "thrown"
PollAfterFailure == "sleep"

\* lastStatus after a rejected query: the assignment of the try block did
\* not happen, and the catch block assigns nothing.
StatusAfterFailure_Cleared(prev) == NoStatus
StatusAfterFailure(prev) == prev

\* One pass of the loop body up to its next suspension: the status is queried
\* and awaited; a resolved value is remembered and returned when final; a
\* rejection is logged; otherwise the body goes on to the sleep.
PollQuery ==
    /\ pollPc = "loop"
    /\ PollLoopCond(pollI, Num(maxAttempts, maxAttemptsHalf))
    /\ pollQueries' = pollQueries + 1
    /\ \E out \in QueryOutcomes :
         /\ lastObs' = out
         /\ pollLog' = IF pollLog = NoLog THEN pollLog ELSE Append(pollLog, out)
         /\ IF out.kind = "error"
            THEN /\ pollPc' = PollAfterFailure
                 /\ pollFailures' = pollFailures + 1
                 /\ lastStatus' = StatusAfterFailure(lastStatus)
                 /\ UNCHANGED pollResult
            ELSE /\ lastStatus' = out
                 /\ UNCHANGED pollFailures
                 /\ IF IsFinal(out)
                    THEN pollPc' = "returned" /\ pollResult' = lastStatus'
                    ELSE pollPc' = "sleep" /\ UNCHANGED pollResult
    /\ UNCHANGED <<maxAttempts, maxAttemptsHalf, pollI, pollSleeps>>
    /\ UNCHANGED <<retryVars, feeVars, buildVars, frontVars, cliVars, sigVars>>

\* await sleepMs(intervalMs); then i++
PollSleep ==
    /\ pollPc = "sleep"
    /\ pollSleeps' = pollSleeps + 1
    /\ pollI' = pollI + 1
    /\ pollPc' = "loop"
    /\ UNCHANGED <<maxAttempts, maxAttemptsHalf, lastStatus, pollQueries, pollFailures, lastObs,
                   pollResult, pollLog>>
    /\ UNCHANGED <<retryVars, feeVars, buildVars, frontVars, cliVars, sigVars>>

\* Where the function goes when the loop condition fails: return lastStatus.
PollAfterLoop_Throw == "thrown"
PollAfterLoop == "returned"

PollExhausted ==
    /\ pollPc = "loop"
    /\ ~PollLoopCond(pollI, Num(maxAttempts, maxAttemptsHalf))
    /\ pollPc' = PollAfterLoop
    /\ pollResult' = lastStatus
    /\ UNCHANGED <<maxAttempts, maxAttemptsHalf, pollI, lastStatus, pollQueries, pollSleeps,
                   pollFailures, lastObs, pollLog>>
    /\ UNCHANGED <<retryVars, feeVars, buildVars, frontVars, cliVars, sigVars>>

NextPoll == PollQuery \/ PollSleep \/ PollExhausted

(***************************************************************************)
(* The fee ceiling                                                         *)
(***************************************************************************)
\* 10_000n, the basis-point denominator.
BpsDenominator == 10000
\* process.env.FEE_BUFFER_BPS ?? "2000"
DefaultFeeBufferBps == 2000

\* BigInt division truncates toward zero.
TruncDiv(a, b) == IF a >= 0 THEN a \div b ELSE -((-a) \div b)

\* incrementWithPermitFeeCapped.ts: maxFee
MaxFeeCapped(fee, bps) == TruncDiv(fee * (BpsDenominator + bps), BpsDenominator)

\* permitSwapAndPayFeeNative.ts: maxFeeEth
MaxFeeEthNative(fee, bps) == TruncDiv(fee * (BpsDenominator + bps), BpsDenominator)

\* App.tsx handleSubmit: maxFeeEth
MaxFeeEthFrontend_DivideFirst(fee, bps) == TruncDiv(fee, BpsDenominator) * (BpsDenominator + bps)
MaxFeeEthFrontend(fee, bps) == TruncDiv(fee * (BpsDenominator + bps), BpsDenominator)

FeeVariants == {"feeCapped", "payFeeNative", "frontend"}

\* The fee ceiling as the flow `v` computes it.
MaxFeeOf(v, fee, bps) ==
    CASE v = "feeCapped" -> MaxFeeCapped(fee, bps)
      [] v = "payFeeNative" -> MaxFeeEthNative(fee, bps)
      [] v = "frontend" -> MaxFeeEthFrontend(fee, bps)

\* The fee buffers a configuration gives, and the fees the relay estimates.
FeeBuffers == {0, 1} \cup {k * DefaultFeeBufferBps : k \in 1..MaxBufferSteps}
EstimatedFees == 0..MaxEstimatedFee

FeeIdle ==
    /\ feeVariant = "off"
    /\ feeBufferBps = 0
    /\ estimatedFee = 0
    /\ maxFee = 0
    /\ feePc = "off"

InitFee ==
    /\ feeVariant \in FeeVariants
    /\ feeBufferBps \in FeeBuffers
    /\ estimatedFee = 0
    /\ maxFee = 0
    /\ feePc = "estimate"

\* const estimatedFee = await relay.getEstimatedFee(...); const maxFee = ...
FeeEstimate ==
    /\ feePc = "estimate"
    /\ \E fee \in EstimatedFees :
         /\ estimatedFee' = fee
         /\ maxFee' = MaxFeeOf(feeVariant, fee, feeBufferBps)
    /\ feePc' = "done"
    /\ UNCHANGED <<feeVariant, feeBufferBps>>
    /\ UNCHANGED <<retryVars, pollVars, buildVars, frontVars, cliVars, sigVars>>

\* The relay call rejects: the flow ends with the error.
FeeEstimateFails ==
    /\ feePc = "estimate"
    /\ feePc' = "failed"
    /\ UNCHANGED <<feeVariant, feeBufferBps, estimatedFee, maxFee>>
    /\ UNCHANGED <<retryVars, pollVars, buildVars, frontVars, cliVars, sigVars>>

NextFee == FeeEstimate \/ FeeEstimateFails

(***************************************************************************)
(* buildPermitSignature                                                    *)
(***************************************************************************)
\* The calls that run interleaved for one owner and one token.
Builds == {"A", "B"}
OtherBuild(b) == CHOOSE c \in Builds : c # b

\* The four reads readPermitMetadata passes to Promise.all, and those whose
\* promise is the bare readContract call.
Reads == {"name", "version", "decimals", "nonces"}
RequiredReads == {"name", "decimals", "nonces"}

\* What the token answers on chain.
TokenName == "USD Coin"
TokenVersion == "2"

\* relayHelpers.ts takes amountInput: string and parses it; permit.ts takes
\* amount: bigint.
BuildVariants == {"helpers", "frontend"}
AmountInputs == {"1.5", "abc"}

\* parseUnits(amountInput, decimals) throws on input that is no decimal number.
ParseUnitsThrows(input) == input = "abc"

NoSlots == [name |-> Undefined, version |-> Undefined, decimals |-> -1, nonces |-> -1]
NoRequest == [name |-> Undefined, version |-> Undefined, nonce |-> -1]
\* The order in which the reads of a call settled, where it is recorded.
Untracked == <<"untracked">>

BuildIdle ==
    /\ chainNonce = 0
    /\ buildVariant = "off"
    /\ amountInput = Undefined
    /\ buildPc = [b \in Builds |-> "off"]
    /\ slotSt = [b \in Builds |-> [r \in Reads |-> "none"]]
    /\ slotVal = [b \in Builds |-> NoSlots]
    /\ readFailed = [b \in Builds |-> {}]
    /\ signerRejected = [b \in Builds |-> FALSE]
    /\ readCount = [b \in Builds |-> [r \in Reads |-> 0]]
    /\ signCount = [b \in Builds |-> 0]
    /\ signReq = [b \in Builds |-> NoRequest]
    /\ buildErr = [b \in Builds |-> "none"]
    /\ settleOrder = [b \in Builds |-> Untracked]

InitBuild ==
    /\ chainNonce = 0
    /\ buildVariant \in BuildVariants
    /\ amountInput \in IF buildVariant = "helpers" THEN AmountInputs ELSE {"1.5"}
    /\ buildPc = [b \in Builds |-> "idle"]
    /\ slotSt = [b \in Builds |-> [r \in Reads |-> "none"]]
    /\ slotVal = [b \in Builds |-> NoSlots]
    /\ readFailed = [b \in Builds |-> {}]
    /\ signerRejected = [b \in Builds |-> FALSE]
    /\ readCount = [b \in Builds |-> [r \in Reads |-> 0]]
    /\ signCount = [b \in Builds |-> 0]
    /\ signReq = [b \in Builds |-> NoRequest]
    /\ buildErr = [b \in Builds |-> "none"]
    /\ settleOrder = [b \in Builds |-> Untracked]

\* One call of buildPermitSignature, with the order in which its reads
\* settle recorded.
InitJoin ==
    /\ chainNonce = 0
    /\ buildVariant \in BuildVariants
    /\ amountInput \in IF buildVariant = "helpers" THEN AmountInputs ELSE {"1.5"}
    /\ buildPc = [b \in Builds |-> IF b = "A" THEN "idle" ELSE "off"]
    /\ slotSt = [b \in Builds |-> [r \in Reads |-> "none"]]
    /\ slotVal = [b \in Builds |-> NoSlots]
    /\ readFailed = [b \in Builds |-> {}]
    /\ signerRejected = [b \in Builds |-> FALSE]
    /\ readCount = [b \in Builds |-> [r \in Reads |-> 0]]
    /\ signCount = [b \in Builds |-> 0]
    /\ signReq = [b \in Builds |-> NoRequest]
    /\ buildErr = [b \in Builds |-> "none"]
    /\ settleOrder = [b \in Builds |-> IF b = "A" THEN << >> ELSE Untracked]

\* What the chain returns for a read that succeeds now.
ChainValue(r) ==
    CASE r = "name" -> TokenName
      [] r = "version" -> TokenVersion
      [] r = "decimals" -> 6
      [] r = "nonces" -> chainNonce

\* client.readContract(...): the promise resolves with the chain's value or
\* rejects.
ReadContract_Swallow(r, ok) == [st |-> "resolved", val |-> ChainValue(r)]
ReadContract(r, ok) ==
    IF ok THEN [st |-> "resolved", val |-> ChainValue(r)]
          ELSE [st |-> "rejected", val |-> ChainValue(r)]

\* readTokenVersion: try { return await client.readContract(version) }
\* catch { return "1" }
ReadTokenVersion_NoCatch(ok) == ReadContract("version", ok)
ReadTokenVersion(ok) ==
    IF ok THEN ReadContract("version", TRUE)
          ELSE [st |-> "resolved", val |-> "1"]

\* Promise.all: fulfilled once every promise has resolved, rejected by the
\* first promise that rejects.
AllResolved_ButVersion(st) == \A r \in RequiredReads : st[r] = "resolved"
AllResolved(st) == \A r \in Reads : st[r] = "resolved"

\* return { name, version, decimals, nonce }, from the values of this call's
\* own four promises.
PermitMeta_SharedNonce(b, val) ==
    [name |-> val.name, version |-> val.version, decimals |-> val.decimals,
     nonce |-> IF slotSt[OtherBuild(b)]["nonces"] = "resolved"
               THEN slotVal[OtherBuild(b)].nonces ELSE val.nonces]
PermitMeta(b, val) ==
    [name |-> val.name, version |-> val.version, decimals |-> val.decimals,
     nonce |-> val.nonces]

\* The typed-data request: domain { name, version, ... }, message { ..., nonce }.
TypedData(meta) == [name |-> meta.name, version |-> meta.version, nonce |-> meta.nonce]

\* buildPermitSignature is called: readPermitMetadata issues the four reads
\* at once and awaits Promise.all.
BuildStart(b) ==
    /\ buildPc[b] = "idle"
    /\ buildPc' = [buildPc EXCEPT ![b] = "reading"]
    /\ slotSt' = [slotSt EXCEPT ![b] = [r \in Reads |-> "pending"]]
    /\ readCount' = [readCount EXCEPT ![b] = [r \in Reads |-> readCount[b][r] + 1]]
    /\ UNCHANGED <<chainNonce, buildVariant, amountInput, slotVal, readFailed,
                   signerRejected, signCount, signReq, buildErr, settleOrder>>
    /\ UNCHANGED <<retryVars, pollVars, feeVars, frontVars, cliVars, sigVars>>

\* One read of call b settles.  While the call awaits Promise.all, a rejected
\* promise rejects the call with that error; the last promise to resolve
\* lets the call go on: (relayHelpers.ts) parse the amount, then request the
\* signature over the metadata.
ReadSettle(b, r, ok) ==
    /\ slotSt[b][r] = "pending"
    /\ LET res == IF r = "version" THEN ReadTokenVersion(ok) ELSE ReadContract(r, ok)
           st == [slotSt[b] EXCEPT ![r] = res.st]
           val == IF res.st = "resolved" THEN [slotVal[b] EXCEPT ![r] = res.val]
                                         ELSE slotVal[b]
       IN
         /\ slotSt' = [slotSt EXCEPT ![b] = st]
         /\ slotVal' = [slotVal EXCEPT ![b] = val]
         /\ readFailed' = [readFailed EXCEPT ![b] = IF ok THEN @ ELSE @ \cup {r}]
         /\ settleOrder' = [settleOrder EXCEPT ![b] = IF @ = Untracked THEN @ ELSE Append(@, r)]
         /\ IF buildPc[b] # "reading"
            THEN UNCHANGED <<buildPc, buildErr, signCount, signReq>>
            ELSE IF res.st = "rejected"
            THEN /\ buildPc' = [buildPc EXCEPT ![b] = "failed"]
                 /\ buildErr' = [buildErr EXCEPT ![b] = r]
                 /\ UNCHANGED <<signCount, signReq>>
            ELSE IF ~AllResolved(st)
            THEN UNCHANGED <<buildPc, buildErr, signCount, signReq>>
            ELSE IF buildVariant = "helpers" /\ ParseUnitsThrows(amountInput)
            THEN /\ buildPc' = [buildPc EXCEPT ![b] = "failed"]
                 /\ buildErr' = [buildErr EXCEPT ![b] = "parseUnits"]
                 /\ UNCHANGED <<signCount, signReq>>
            ELSE /\ buildPc' = [buildPc EXCEPT ![b] = "signing"]
                 /\ signCount' = [signCount EXCEPT ![b] = @ + 1]
                 /\ signReq' = [signReq EXCEPT ![b] = TypedData(PermitMeta(b, val))]
                 /\ UNCHANGED buildErr
    /\ UNCHANGED <<chainNonce, buildVariant, amountInput, readCount, signerRejected>>
    /\ UNCHANGED <<retryVars, pollVars, feeVars, frontVars, cliVars, sigVars>>

\* signTypedData settles: the signature is split and returned, or the
\* signer's rejection rejects the call.
SignerSettle(b, ok) ==
    /\ buildPc[b] = "signing"
    /\ buildPc' = [buildPc EXCEPT ![b] = IF ok THEN "done" ELSE "failed"]
    /\ buildErr' = [buildErr EXCEPT ![b] = IF ok THEN @ ELSE "signer"]
    /\ signerRejected' = [signerRejected EXCEPT ![b] = ~ok]
    /\ UNCHANGED <<chainNonce, buildVariant, amountInput, slotSt, slotVal, readFailed,
                   readCount, signCount, signReq, settleOrder>>
    /\ UNCHANGED <<retryVars, pollVars, feeVars, frontVars, cliVars, sigVars>>

\* A permit of the owner is consumed on chain: nonces(owner) moves on.
NonceAdvance ==
    /\ buildVariant # "off"
    /\ chainNonce < MaxNonce
    /\ chainNonce' = chainNonce + 1
    /\ UNCHANGED <<buildVariant, amountInput, buildPc, slotSt, slotVal, readFailed,
                   signerRejected, readCount, signCount, signReq, buildErr, settleOrder>>
    /\ UNCHANGED <<retryVars, pollVars, feeVars, frontVars, cliVars, sigVars>>

NextBuild ==
    \/ \E b \in Builds : BuildStart(b)
    \/ \E b \in Builds, r \in Reads, ok \in BOOLEAN : ReadSettle(b, r, ok)
    \/ \E b \in Builds, ok \in BOOLEAN : SignerSettle(b, ok)
    \/ NonceAdvance

(***************************************************************************)
(* Properties of retry                                                     *)
(***************************************************************************)
\* The 1-based indices, among the first n invocations, of the first one that
\* succeeds (empty when none of them does).
FirstSuccessWithin(n) ==
    {i \in 1..n : fnScript[i].ok /\ \A j \in 1..(i - 1) : ~fnScript[j].ok}

\* min(k, maxRetries + 1), k the index of the first attempt that succeeds.
ExpectedCalls ==
    IF FirstSuccessWithin(maxRetries + 1) # {}
    THEN CHOOSE i \in FirstSuccessWithin(maxRetries + 1) : TRUE
    ELSE maxRetries + 1

\* C1: for maxRetries >= 0, retry has invoked fn exactly min(k, maxRetries+1)
\* times when it ends, k the index of the first attempt that succeeds; it
\* never invokes fn more often than that, and so never after a success.
\* (Violated: a rejection with undefined on an attempt that is not the last
\* ends retry there, by the TypeError of the log line.)
C1_RetryInvocationCount ==
    (retryPc # "off" /\ maxRetries >= 0) =>
        /\ fnCalls <= ExpectedCalls
        /\ (retryPc \in {"returned", "thrown"} => fnCalls = ExpectedCalls)
        /\ \A i \in 1..fnCalls : fnScript[i].ok => (i = fnCalls /\ retryPc = "returned")

\* C2: when maxRetries+1 attempts were made and all failed, retry throws the
\* error of the final attempt itself; when an attempt succeeded, retry
\* returns that attempt's value and throws nothing.
C2_RetryThrowsLastError ==
    (retryPc \in {"returned", "thrown"} /\ maxRetries >= 0) =>
        /\ (fnCalls = maxRetries + 1 /\ \A i \in 1..fnCalls : ~fnScript[i].ok) =>
              (retryPc = "thrown" /\ retryResult = fnScript[fnCalls].v)
        /\ (\E i \in 1..fnCalls : fnScript[i].ok) =>
              (retryPc = "returned" /\ fnScript[fnCalls].ok /\ retryResult = fnScript[fnCalls].v)
        /\ retryPc = "returned" => \E i \in 1..fnCalls : fnScript[i].ok

\* Every attempt failed, the first and the last with different errors.
C2_Witness ==
    /\ retryPc = "thrown"
    /\ maxRetries >= 2
    /\ fnCalls = maxRetries + 1
    /\ fnScript[1].v # fnScript[fnCalls].v
    /\ retryResult = fnScript[fnCalls].v

\* C23: for an integer maxRetries >= 0, retry sleeps once between two
\* consecutive invocations of fn and not after the last: when it ends it
\* has slept one time less than it invoked fn, which is maxRetries times
\* when every invocation failed and not at all when the first succeeded.
\* (Violated: see C1; a rejection with undefined on an attempt that is not
\* the last ends retry there with fewer than maxRetries sleeps.)
C23_RetrySleepsBetweenAttempts ==
    (retryPc # "off" /\ maxRetries >= 0) =>
        /\ retryPc = "loop" => retrySleeps = fnCalls
        /\ retryPc \in {"sleep", "returned", "thrown"} => retrySleeps = fnCalls - 1
        /\ (retryPc = "thrown" /\ \A i \in 1..fnCalls : ~fnScript[i].ok) =>
               retrySleeps = maxRetries
        /\ (retryPc = "returned" /\ fnScript[1].ok) => retrySleeps = 0

\* C24: whatever finite count parseNumber makes of RELAY_RETRIES, negative
\* and fractional ones included, retry has invoked the submission at least
\* once when it ends, and what it throws is the error one of its invocations
\* raised.  (Violated: with a count below zero the loop body never runs, and
\* retry throws the undefined initial value of lastErr without one
\* invocation.)
C24_RetryAttemptsAndThrowsRaisedError ==
    retryPc \in {"returned", "thrown"} =>
        /\ fnCalls >= 1
        /\ retryPc = "thrown" =>
               \E i \in 1..fnCalls : ~fnScript[i].ok /\ fnScript[i].v = retryResult

(***************************************************************************)
(* Properties of waitForTaskFinal                                          *)
(***************************************************************************)
\* The terminal vocabulary, and a terminal observation: a response that
\* carries a non-empty transaction hash or a task state of the vocabulary.
TerminalVocabulary ==
    {"ExecSuccess", "ExecReverted", "Cancelled", "Blacklisted", "NotFound", "Reverted",
     "CancelledByUser"}
TerminalObservation(obs) ==
    /\ obs.kind = "response"
    /\ \/ obs.transactionHash \notin {Undefined, ""}
       \/ obs.taskState \in TerminalVocabulary

\* C3: waitForTaskFinal returns with fewer than maxAttempts queries made only
\* when its most recent query gave a terminal observation; every other return
\* comes after exactly maxAttempts queries.
C3_PollReturnsOnlyTerminalOrExhausted ==
    pollPc = "returned" =>
        \/ TerminalObservation(lastObs)
        \/ /\ pollQueries >= maxAttempts
           /\ maxAttempts >= 0 => pollQueries = maxAttempts

\* The attempts ran out on a response that was still pending.
C3_Witness ==
    /\ pollPc = "returned"
    /\ maxAttempts = MaxAttempts
    /\ pollQueries = maxAttempts
    /\ lastObs.kind = "response"
    /\ lastObs.taskState = "ExecPending"
    /\ lastObs.transactionHash = Undefined

\* C4: a terminal observation ends the poll at once: the function has
\* returned that very response, and the query that gave it is the last query
\* and follows the last sleep.
C4_PollReturnsAtFirstTerminal ==
    (pollPc # "off" /\ TerminalObservation(lastObs)) =>
        /\ pollPc = "returned"
        /\ pollResult = lastObs
        /\ pollQueries = pollI + 1
        /\ pollSleeps = pollI

\* A response with a hash and the state CheckPending, seen on the second
\* query of three.
C4_Witness ==
    /\ pollPc = "returned"
    /\ maxAttempts = MaxAttempts
    /\ pollQueries = 2
    /\ pollResult.transactionHash = "0xabc"
    /\ pollResult.taskState = "CheckPending"

\* C5: the poll never throws, never queries more than maxAttempts times, and
\* once maxAttempts queries are made with no terminal observation its next
\* step is a normal return, with no further query or sleep.
C5_PollExhaustionReturns ==
    /\ [](pollPc # "thrown")
    /\ [](pollPc # "off" /\ maxAttempts >= 0 => pollQueries <= maxAttempts)
    /\ [][(pollPc = "loop" /\ pollQueries >= maxAttempts) =>
            (pollPc' = "returned" /\ pollQueries' = pollQueries /\ pollSleeps' = pollSleeps)]_vars

\* Three queries, a failure among them, none terminal: a normal return.
C5_Witness ==
    /\ pollPc = "returned"
    /\ maxAttempts = MaxAttempts
    /\ pollQueries = maxAttempts
    /\ pollFailures >= 1
    /\ ~TerminalObservation(lastObs)
    /\ pollResult.kind = "response"

\* C6: a failed query is one attempt like any other: it is followed by one
\* sleep and the next attempt, nothing is thrown, and a terminal response
\* that comes after a failure is returned.
C6_PollSurvivesQueryFailure ==
    /\ pollPc # "thrown"
    /\ pollFailures <= pollQueries
    /\ pollPc = "loop" => (pollQueries = pollI /\ pollSleeps = pollI)
    /\ pollPc = "sleep" => (pollQueries = pollI + 1 /\ pollSleeps = pollI)
    /\ (pollPc # "off" /\ lastObs.kind = "error") =>
          \/ pollPc \in {"sleep", "loop"}
          \/ pollPc = "returned" /\ pollQueries = maxAttempts /\ pollSleeps = maxAttempts
    /\ (pollFailures >= 1 /\ TerminalObservation(lastObs)) =>
          (pollPc = "returned" /\ pollResult = lastObs)

\* The first query failed, a later one gave ExecSuccess, which was returned.
C6_Witness ==
    /\ pollPc = "returned"
    /\ pollFailures >= 1
    /\ pollQueries >= 2
    /\ pollResult.kind = "response"
    /\ pollResult.taskState = "ExecSuccess"

\* Twice the number maxAttempts, and twice max(0, maxAttempts).
TwiceMaxAttempts == 2 * maxAttempts + maxAttemptsHalf
TwiceQueryBound == IF TwiceMaxAttempts > 0 THEN TwiceMaxAttempts ELSE 0

\* C25: for every finite maxAttempts, waitForTaskFinal ends when each query
\* and each sleep completes; it makes at most max(0, maxAttempts) queries,
\* one at a time, each after the previous one finished and one sleep
\* elapsed; with maxAttempts <= 0 it makes no query and returns undefined.
\* (Violated: a fractional maxAttempts such as 2.5 lets the loop run for
\* i = 0, 1, 2, which is three queries.)
C25_PollTerminatesWithinBound ==
    /\ <>(pollPc \in {"returned", "thrown"})
    /\ [](2 * pollQueries <= TwiceQueryBound)
    /\ [][pollQueries' # pollQueries =>
            /\ pollQueries' = pollQueries + 1
            /\ pollPc = "loop"
            /\ pollSleeps = pollQueries]_vars
    /\ [](TwiceMaxAttempts <= 0 =>
            /\ pollQueries = 0
            /\ pollPc \in {"loop", "returned"}
            /\ pollResult = NoStatus)

\* The queries recorded so far that resolved, and what the latest of them
\* resolved with (undefined when there is none).
ResolvedQueries == {k \in 1..Len(pollLog) : pollLog[k].kind # "error"}
MostRecentResolved ==
    IF ResolvedQueries = {}
    THEN NoStatus
    ELSE pollLog[CHOOSE k \in ResolvedQueries : \A j \in ResolvedQueries : j <= k]

\* The function returned because the loop condition failed.
ReturnedOnExhaustion ==
    pollPc = "returned" /\ ~PollLoopCond(pollI, Num(maxAttempts, maxAttemptsHalf))

\* C26 as stated: on exhaustion waitForTaskFinal returns what the most recent
\* query that did not fail resolved with, failed queries leave the remembered
\* status as it was, and the result is undefined exactly when no query
\* succeeded.
C26_ExhaustionReturnsLastSuccess ==
    /\ (pollPc # "off" /\ pollLog # NoLog) => lastStatus = MostRecentResolved
    /\ (ReturnedOnExhaustion /\ pollLog # NoLog) =>
          /\ pollResult = MostRecentResolved
          /\ pollResult = NoStatus <=> ResolvedQueries = {}

\* C26, amended: on exhaustion waitForTaskFinal returns what the most recent
\* query that did not fail resolved with, failed queries leave the remembered
\* status as it was, and the result is undefined exactly when no query
\* succeeded or the most recent one that did resolved with undefined.
C26_ExhaustionReturnsLastResolved ==
    /\ (pollPc # "off" /\ pollLog # NoLog) => lastStatus = MostRecentResolved
    /\ (ReturnedOnExhaustion /\ pollLog # NoLog) =>
          /\ pollResult = MostRecentResolved
          /\ pollResult = NoStatus <=>
                (ResolvedQueries = {} \/ MostRecentResolved = NoStatus)

\* Three queries: a pending response, then two failures; the pending
\* response is returned.
C26_Witness ==
    /\ ReturnedOnExhaustion
    /\ Len(pollLog) = 3
    /\ pollLog[1].kind = "response"
    /\ pollLog[2].kind = "error"
    /\ pollLog[3].kind = "error"
    /\ pollResult = pollLog[1]
    /\ pollResult.taskState = "ExecPending"

(***************************************************************************)
(* Properties of the fee ceiling                                           *)
(***************************************************************************)
\* C7: for estimatedFee >= 0 and bufferBps >= 0 the ceiling is
\* (estimatedFee * (10000 + bufferBps)) div 10000; it does not decrease with
\* a larger estimate or a larger buffer, equals the estimate when the buffer
\* is 0, and the three flows compute the same value.
C7_MaxFeeMonotonic ==
    feePc = "done" =>
        /\ maxFee = (estimatedFee * (10000 + feeBufferBps)) \div 10000
        /\ \A fee \in EstimatedFees :
              fee <= estimatedFee => MaxFeeOf(feeVariant, fee, feeBufferBps) <= maxFee
        /\ \A bps \in FeeBuffers :
              bps <= feeBufferBps => MaxFeeOf(feeVariant, estimatedFee, bps) <= maxFee
        /\ feeBufferBps = 0 => maxFee = estimatedFee
        /\ \A v \in FeeVariants : MaxFeeOf(v, estimatedFee, feeBufferBps) = maxFee

\* An estimate of 7 with the default buffer: 8.4 truncates to 8.
C7_Witness ==
    /\ feePc = "done"
    /\ feeVariant = "frontend"
    /\ estimatedFee = 7
    /\ feeBufferBps = DefaultFeeBufferBps
    /\ maxFee = 8

(***************************************************************************)
(* Properties of buildPermitSignature                                      *)
(***************************************************************************)
\* C8: the nonce of a call's typed-data request is the value its own
\* nonces(owner) read returned, whatever another call did meanwhile.
C8_PermitNonceIsOwnRead ==
    \A b \in Builds :
        signCount[b] >= 1 =>
            /\ slotSt[b]["nonces"] = "resolved"
            /\ signReq[b].nonce = slotVal[b].nonces

\* Call A read nonce 0 and is still signing after call B, which read nonce 1,
\* has finished.
C8_Witness ==
    /\ buildPc["A"] = "signing"
    /\ buildPc["B"] = "done"
    /\ signReq["A"].nonce = 0
    /\ signReq["B"].nonce = 1

\* C9: when version() fails and the other three reads succeed, the metadata
\* and the signed domain carry version "1", the signature is requested
\* unless the amount does not parse, and the call fails only if the amount
\* does not parse or the signer rejects.
C9_VersionFallback ==
    \A b \in Builds :
        ("version" \in readFailed[b] /\ \A r \in RequiredReads : slotSt[b][r] = "resolved") =>
            /\ slotSt[b]["version"] = "resolved"
            /\ slotVal[b].version = "1"
            /\ buildPc[b] \in {"signing", "done", "failed"}
            /\ buildErr[b] \in {"none", "signer", "parseUnits"}
            /\ buildErr[b] # "parseUnits" => (signCount[b] = 1 /\ signReq[b].version = "1")
            /\ buildPc[b] = "failed" => (signerRejected[b] \/ ParseUnitsThrows(amountInput))

\* Call A completed with the fallback version after its version() read failed.
C9_Witness ==
    /\ buildPc["A"] = "done"
    /\ "version" \in readFailed["A"]
    /\ signReq["A"].version = "1"

\* C10: a call whose name(), decimals() or nonces() read failed has failed
\* with the error of such a read and requested no signature; a call whose
\* signer rejected has failed; no read and no signature request is issued
\* twice in one call.
C10_BuildFailsWithoutRetry ==
    \A b \in Builds :
        /\ (readFailed[b] \cap RequiredReads # {}) =>
              /\ buildPc[b] = "failed"
              /\ buildErr[b] \in readFailed[b] \cap RequiredReads
              /\ signCount[b] = 0
        /\ signerRejected[b] => (buildPc[b] = "failed" /\ buildErr[b] = "signer")
        /\ \A r \in Reads : readCount[b][r] <= 1
        /\ signCount[b] <= 1
        /\ buildPc[b] \in {"reading", "signing", "done", "failed"} =>
              \A r \in Reads : readCount[b][r] = 1

\* Call A failed on its nonces(owner) read after its other reads succeeded.
C10_Witness ==
    /\ buildPc["A"] = "failed"
    /\ buildErr["A"] = "nonces"
    /\ readFailed["A"] = {"nonces"}
    /\ \A r \in Reads \ {"nonces"} : slotSt["A"][r] = "resolved"
    /\ signCount["A"] = 0

\* C21: the four reads of a call are issued together when it starts; a
\* signature is requested only once all four have completed, and the
\* metadata it is requested over is made of the four values the reads
\* returned, in whatever order they completed.
C21_ReadsJoinedBeforeSigning ==
    \A b \in Builds :
        /\ buildPc[b] \in {"reading", "signing", "done", "failed"} =>
               \A r \in Reads : slotSt[b][r] # "none" /\ readCount[b][r] = 1
        /\ signCount[b] >= 1 =>
               /\ \A r \in Reads : slotSt[b][r] = "resolved"
               /\ signReq[b] = [name |-> slotVal[b].name, version |-> slotVal[b].version,
                                nonce |-> slotVal[b].nonces]
               /\ slotVal[b].name = TokenName
               /\ slotVal[b].decimals = 6
               /\ settleOrder[b] # Untracked =>
                      /\ Len(settleOrder[b]) = 4
                      /\ {settleOrder[b][i] : i \in 1..4} = Reads

\* The reads of call A completed in the reverse of the order they are
\* listed in, nonces first and name last, and the signature was requested.
C21_Witness ==
    /\ settleOrder["A"] = <<"nonces", "decimals", "version", "name">>
    /\ buildPc["A"] = "signing"
    /\ signReq["A"].name = TokenName

(***************************************************************************)
(* The front end: connectWallet, handleSubmit and pollTask                 *)
(***************************************************************************)
\* App.tsx and the older variant of the same component.
FrontVariants == {"App", "part000"}

\* The text of the amount field: one parseUnits rejects, or a decimal with
\* its value in token units (parseUnits accepts a leading minus sign).
AmountTexts == [ok : {FALSE}, units : {0}] \cup [ok : {TRUE}, units : (-1)..MaxAmount]
\* What balanceOf returns.
Balances == 0..MaxBalance
\* appConfig.statusPolls
StatusPollCounts == 0..MaxStatusPolls

\* useState initial values: task and error are null, logs is empty.
NoTask == [id |-> Undefined, status |-> Undefined, txHash |-> Undefined]
NoError == "null"
FrontTaskId == "task1"
LogLine(msg, arg) == [msg |-> msg, arg |-> arg]

\* The network calls one handleSubmit invocation has issued so far.
NoCalls == [read |-> 0, sign |-> 0, estimate |-> 0, submit |-> 0, status |-> 0]

\* What a rejected promise carries: an Error with a message, or undefined.
FrontErrors == {"e1", Undefined}

\* The status responses the front end is shown.
FrontTaskStates == {Undefined, "CheckPending", "ExecSuccess", "Cancelled"}
FrontHashes == {Undefined, "0xabc"}
FrontResponses ==
    [kind : {"response"}, taskState : FrontTaskStates, transactionHash : FrontHashes]
        \cup {NoStatus}

FrontIdle ==
    /\ frontVariant = "App"
    /\ relayApiKey = FALSE
    /\ statusPolls = 0
    /\ wallet = FALSE
    /\ tokenLoaded = FALSE
    /\ tokenBalance = 0
    /\ frontAmountInput = [ok |-> FALSE, units |-> 0]
    /\ logs = << >>
    /\ task = NoTask
    /\ isSubmitting = FALSE
    /\ error = NoError
    /\ frontPc = "off"
    /\ parsedAmount = 0
    /\ frontI = 0
    /\ frontCalls = NoCalls
    /\ frontObs = NoStatus

\* The component after its first render.
InitFront ==
    /\ frontVariant \in FrontVariants
    /\ relayApiKey \in BOOLEAN
    /\ statusPolls \in StatusPollCounts
    /\ wallet = FALSE
    /\ tokenLoaded = FALSE
    /\ tokenBalance = 0
    /\ frontAmountInput = [ok |-> FALSE, units |-> 0]
    /\ logs = << >>
    /\ task = NoTask
    /\ isSubmitting = FALSE
    /\ error = NoError
    /\ frontPc = "idle"
    /\ parsedAmount = 0
    /\ frontI = 0
    /\ frontCalls = NoCalls
    /\ frontObs = NoStatus

\* The comparison of the parsed amount with the loaded balance:
\* parsedAmount > tokenBalance in App.tsx, parsedAmount >= tokenBalance in
\* the older variant.
BalanceCheckRejects_AlwaysStrict(variant, amount, balance) == amount > balance
BalanceCheckRejects(variant, amount, balance) ==
    IF variant = "App" THEN amount > balance ELSE amount >= balance

BalanceCheckMessage(variant) ==
    IF variant = "App" THEN "Insufficient balance."
    ELSE "Amount must be smaller than your balance."

\* if (parsedAmount <= 0n)
NonPositive_Negative(amount) == amount < 0
NonPositive(amount) == amount <= 0

\* The early returns of handleSubmit, in the order of the code: the message
\* handed to setError, or NoError when the submission goes ahead.
SubmitRejection(variant, hasWallet, hasKey, loaded, text, balance) ==
    IF ~hasWallet THEN "Connect your wallet first."
    ELSE IF ~hasKey THEN "Set VITE_GELATO_RELAY_API_KEY in frontend/.env before submitting."
    ELSE IF ~loaded THEN "Token balance is not loaded yet."
    ELSE IF ~text.ok THEN "Invalid amount format."
    ELSE IF NonPositive(text.units) THEN "Amount must be greater than zero."
    ELSE IF BalanceCheckRejects(variant, text.units, balance) THEN BalanceCheckMessage(variant)
    ELSE NoError

\* connectWallet, for a wallet not yet connected: without a provider it
\* reports an error; a failed read leaves the wallet unset; otherwise the
\* token state is loaded, the wallet set and a line logged.
ConnectWallet(outcome, bal) ==
    /\ frontPc = "idle"
    /\ ~wallet
    /\ task' = NoTask
    /\ CASE outcome = "noProvider" ->
              /\ error' = "MetaMask (or another EIP-1193 wallet) is not available."
              /\ UNCHANGED <<wallet, tokenLoaded, tokenBalance, logs>>
         [] outcome = "readFailed" ->
              /\ error' = NoError
              /\ UNCHANGED <<wallet, tokenLoaded, tokenBalance, logs>>
         [] outcome = "connected" ->
              /\ error' = NoError
              /\ wallet' = TRUE
              /\ tokenLoaded' = TRUE
              /\ tokenBalance' = bal
              /\ logs' = Append(logs, LogLine("Connected", ""))
    /\ UNCHANGED <<frontVariant, relayApiKey, statusPolls, frontAmountInput, isSubmitting,
                   frontPc, parsedAmount, frontI, frontCalls, frontObs>>
    /\ UNCHANGED <<retryVars, pollVars, feeVars, buildVars, cliVars, sigVars>>

\* handleSubmit up to its first await, with the amount field holding text:
\* setError(null), the early returns, and for an accepted amount the reset of
\* the view and the call of buildPermitSignature, which issues the four
\* metadata reads.
HandleSubmit(text) ==
    /\ frontPc = "idle"
    /\ frontAmountInput' = text
    /\ frontI' = 0
    /\ frontObs' = NoStatus
    /\ LET rejection == SubmitRejection(frontVariant, wallet, relayApiKey, tokenLoaded,
                                        text, tokenBalance)
       IN  IF rejection # NoError
           THEN /\ error' = rejection
                /\ frontCalls' = NoCalls
                /\ UNCHANGED <<isSubmitting, logs, task, frontPc, parsedAmount>>
           ELSE /\ error' = NoError
                /\ isSubmitting' = TRUE
                /\ logs' = <<LogLine("Building permit signature", "")>>
                /\ task' = NoTask
                /\ parsedAmount' = text.units
                /\ frontCalls' = [NoCalls EXCEPT !.read = 4]
                /\ frontPc' = "build"
    /\ UNCHANGED <<frontVariant, relayApiKey, statusPolls, wallet, tokenLoaded, tokenBalance>>
    /\ UNCHANGED <<retryVars, pollVars, feeVars, buildVars, cliVars, sigVars>>

\* catch (err) { setError(err.message ?? String(err)); addLog(...) } finally
\* { setIsSubmitting(false) }: reading .message of an undefined rejection
\* value throws inside the catch block, so neither setError nor addLog runs;
\* the finally block runs either way.
SubmitCatch(err) ==
    /\ isSubmitting' = FALSE
    /\ frontPc' = "idle"
    /\ IF err = Undefined
       THEN UNCHANGED <<error, logs>>
       ELSE /\ error' = err
            /\ logs' = Append(logs, LogLine("Error", err))

\* The await of buildPermitSignature's metadata reads settles: a rejection
\* goes to the catch block, otherwise signTypedData is requested.
FrontReadsSettle(ok, err) ==
    /\ frontPc = "build"
    /\ IF ok
       THEN /\ frontCalls' = [frontCalls EXCEPT !.sign = @ + 1]
            /\ frontPc' = "sign"
            /\ UNCHANGED <<isSubmitting, error, logs>>
       ELSE /\ SubmitCatch(err)
            /\ UNCHANGED frontCalls
    /\ UNCHANGED <<frontVariant, relayApiKey, statusPolls, wallet, tokenLoaded, tokenBalance,
                   frontAmountInput, task, parsedAmount, frontI, frontObs>>
    /\ UNCHANGED <<retryVars, pollVars, feeVars, buildVars, cliVars, sigVars>>

\* The wallet answers the signature request: a rejection goes to the catch
\* block, otherwise getEstimatedFee is called.
FrontSignSettle(ok, err) ==
    /\ frontPc = "sign"
    /\ IF ok
       THEN /\ logs' = Append(logs, LogLine("Estimating relay fee", ""))
            /\ frontCalls' = [frontCalls EXCEPT !.estimate = @ + 1]
            /\ frontPc' = "estimate"
            /\ UNCHANGED <<isSubmitting, error>>
       ELSE /\ SubmitCatch(err)
            /\ UNCHANGED frontCalls
    /\ UNCHANGED <<frontVariant, relayApiKey, statusPolls, wallet, tokenLoaded, tokenBalance,
                   frontAmountInput, task, parsedAmount, frontI, frontObs>>
    /\ UNCHANGED <<retryVars, pollVars, feeVars, buildVars, cliVars, sigVars>>

\* getEstimatedFee settles: a rejection goes to the catch block, otherwise
\* the request is built and callWithSyncFee is called, once.
FrontEstimateSettle(ok, err) ==
    /\ frontPc = "estimate"
    /\ IF ok
       THEN /\ logs' = Append(logs, LogLine("Submitting to Gelato Relay", ""))
            /\ frontCalls' = [frontCalls EXCEPT !.submit = @ + 1]
            /\ frontPc' = "submit"
            /\ UNCHANGED <<isSubmitting, error>>
       ELSE /\ SubmitCatch(err)
            /\ UNCHANGED frontCalls
    /\ UNCHANGED <<frontVariant, relayApiKey, statusPolls, wallet, tokenLoaded, tokenBalance,
                   frontAmountInput, task, parsedAmount, frontI, frontObs>>
    /\ UNCHANGED <<retryVars, pollVars, feeVars, buildVars, cliVars, sigVars>>

\* for (let i = 0; i < appConfig.statusPolls; i++)
FrontPollLoopCond(i, n) == i < n

\* pollTask at the head of its loop with index i: the next getTaskStatus is
\* called, or the loop ends, pollTask returns and fetchTokenState issues its
\* five reads.
PollTaskHead(i, calls) ==
    IF FrontPollLoopCond(i, statusPolls)
    THEN [pc |-> "poll", calls |-> [calls EXCEPT !.status = @ + 1]]
    ELSE [pc |-> "refresh", calls |-> [calls EXCEPT !.read = @ + 5]]

\* callWithSyncFee settles: a rejection goes to the catch block; otherwise
\* the task is shown as Submitted and pollTask starts.
FrontSubmitSettle(ok, err) ==
    /\ frontPc = "submit"
    /\ IF ok
       THEN /\ logs' = Append(logs, LogLine("Task submitted", FrontTaskId))
            /\ task' = [id |-> FrontTaskId, status |-> "Submitted", txHash |-> Undefined]
            /\ frontI' = 0
            /\ frontCalls' = PollTaskHead(0, frontCalls).calls
            /\ frontPc' = PollTaskHead(0, frontCalls).pc
            /\ UNCHANGED <<isSubmitting, error>>
       ELSE /\ SubmitCatch(err)
            /\ UNCHANGED <<frontCalls, task, frontI>>
    /\ UNCHANGED <<frontVariant, relayApiKey, statusPolls, wallet, tokenLoaded, tokenBalance,
                   frontAmountInput, parsedAmount, frontObs>>
    /\ UNCHANGED <<retryVars, pollVars, feeVars, buildVars, cliVars, sigVars>>

\* taskState.toLowerCase().includes("success"), over the states the relay
\* reports: ExecSuccess is the only one that contains the word.
IncludesSuccess(state) == state \in {"ExecSuccess"}

\* if (txHash || (taskState && taskState.toLowerCase().includes("success")))
FrontIsFinal(status) ==
    \/ Truthy(status.transactionHash)
    \/ (Truthy(status.taskState) /\ IncludesSuccess(status.taskState))

\* One getTaskStatus of pollTask resolves with status: the task and a log
\* line are set from it; pollTask returns on a final status (fetchTokenState
\* follows) and sleeps otherwise.
FrontPollResolve(status) ==
    /\ frontPc = "poll"
    /\ frontObs' = status
    /\ task' = [id |-> FrontTaskId,
                status |-> IF Truthy(status.taskState) THEN status.taskState ELSE Undefined,
                txHash |-> IF Truthy(status.transactionHash) THEN status.transactionHash
                           ELSE Undefined]
    /\ logs' = Append(logs, LogLine("Status", IF Truthy(status.taskState) THEN status.taskState
                                              ELSE "pending"))
    /\ IF FrontIsFinal(status)
       THEN /\ frontCalls' = [frontCalls EXCEPT !.read = @ + 5]
            /\ frontPc' = "refresh"
       ELSE /\ frontPc' = "pollSleep"
            /\ UNCHANGED frontCalls
    /\ UNCHANGED <<frontVariant, relayApiKey, statusPolls, wallet, tokenLoaded, tokenBalance,
                   frontAmountInput, isSubmitting, error, parsedAmount, frontI>>
    /\ UNCHANGED <<retryVars, pollVars, feeVars, buildVars, cliVars, sigVars>>

\* One getTaskStatus of pollTask rejects with err: the catch block logs
\* err.message ?? err and the loop sleeps; for an undefined err the log line
\* itself throws a TypeError, which leaves pollTask and reaches the catch
\* block of handleSubmit.
FrontPollReject(err) ==
    /\ frontPc = "poll"
    /\ frontObs' = QueryFailed
    /\ IF err = Undefined
       THEN SubmitCatch("TypeError")
       ELSE /\ logs' = Append(logs, LogLine("Status poll failed", err))
            /\ frontPc' = "pollSleep"
            /\ UNCHANGED <<isSubmitting, error>>
    /\ UNCHANGED <<frontVariant, relayApiKey, statusPolls, wallet, tokenLoaded, tokenBalance,
                   frontAmountInput, task, parsedAmount, frontI, frontCalls>>
    /\ UNCHANGED <<retryVars, pollVars, feeVars, buildVars, cliVars, sigVars>>

\* await sleep(appConfig.statusIntervalMs); i++ and the loop test.
FrontPollSleep ==
    /\ frontPc = "pollSleep"
    /\ frontI' = frontI + 1
    /\ frontCalls' = PollTaskHead(frontI + 1, frontCalls).calls
    /\ frontPc' = PollTaskHead(frontI + 1, frontCalls).pc
    /\ UNCHANGED <<frontVariant, relayApiKey, statusPolls, wallet, tokenLoaded, tokenBalance,
                   frontAmountInput, logs, task, isSubmitting, error, parsedAmount, frontObs>>
    /\ UNCHANGED <<retryVars, pollVars, feeVars, buildVars, cliVars, sigVars>>

\* fetchTokenState settles: the balance is reloaded, or the rejection goes
\* to the catch block; finally isSubmitting is cleared.
FrontRefreshSettle(ok, bal, err) ==
    /\ frontPc = "refresh"
    /\ IF ok
       THEN /\ tokenBalance' = bal
            /\ isSubmitting' = FALSE
            /\ frontPc' = "idle"
            /\ UNCHANGED <<error, logs>>
       ELSE /\ SubmitCatch(err)
            /\ UNCHANGED tokenBalance
    /\ UNCHANGED <<frontVariant, relayApiKey, statusPolls, wallet, tokenLoaded,
                   frontAmountInput, task, parsedAmount, frontI, frontCalls, frontObs>>
    /\ UNCHANGED <<retryVars, pollVars, feeVars, buildVars, cliVars, sigVars>>

NextFront ==
    \/ \E outcome \in {"noProvider", "readFailed", "connected"}, bal \in Balances :
           ConnectWallet(outcome, bal)
    \/ \E text \in AmountTexts : HandleSubmit(text)
    \/ \E ok \in BOOLEAN, err \in FrontErrors : FrontReadsSettle(ok, err)
    \/ \E ok \in BOOLEAN, err \in FrontErrors : FrontSignSettle(ok, err)
    \/ \E ok \in BOOLEAN, err \in FrontErrors : FrontEstimateSettle(ok, err)
    \/ \E ok \in BOOLEAN, err \in FrontErrors : FrontSubmitSettle(ok, err)
    \/ \E status \in FrontResponses : FrontPollResolve(status)
    \/ \E err \in FrontErrors : FrontPollReject(err)
    \/ FrontPollSleep
    \/ \E ok \in BOOLEAN, bal \in Balances, err \in FrontErrors : FrontRefreshSettle(ok, bal, err)

(***************************************************************************)
(* The command-line scripts: main of incrementWithPermitFeeCapped.ts, of   *)
(* permitSwapAndPayFeeNative.ts and of the standalone script               *)
(***************************************************************************)
CliScripts == {"feeCapped", "payFeeNative", "standalone"}

\* getArgValue("--task") ?? process.env.TASK_ID
CliTaskIds == {Undefined, "", "task0"}

\* What getTaskStatus gives a script: a pending or a terminal response,
\* with or without a hash, no status, or a rejection.
CliStatusOutcomes ==
    [kind : {"response"}, taskState : {"CheckPending", "Cancelled"},
     transactionHash : {Undefined, "0xabc"}] \cup {NoStatus, QueryFailed}

\* What getEstimatedFee resolves with.
CliEstimatedFees == {0, MaxEstimatedFee}

NotSigned == [signed |-> FALSE, amount |-> 0]
NoCliRequest ==
    [chainId |-> Undefined, target |-> Undefined, feeToken |-> Undefined,
     data |-> [functionName |-> Undefined, amount |-> 0, maxFee |-> 0]]

CliIdle ==
    /\ cliScript = "feeCapped"
    /\ cliEnvOk = FALSE
    /\ cliTaskId = Undefined
    /\ cliAmountInput = [ok |-> FALSE, units |-> 0]
    /\ cliBalance = 0
    /\ cliRetries = 0
    /\ cliPolls = 0
    /\ cliPc = "off"
    /\ cliAttempt = 0
    /\ cliI = 0
    /\ cliCalls = NoCalls
    /\ cliSigned = NotSigned
    /\ cliRequest = NoCliRequest
    /\ cliSubmitted = << >>
    /\ cliErr = "none"
    /\ cliExit = "running"

\* A script is started: its environment and arguments are any of the
\* modelled ones; the signer's balance is whatever the chain holds.
InitCli ==
    /\ cliScript \in CliScripts
    /\ cliEnvOk \in BOOLEAN
    /\ cliTaskId \in CliTaskIds
    /\ cliAmountInput \in AmountTexts
    /\ cliBalance \in Balances
    /\ cliRetries \in RetryCounts
    /\ cliPolls \in AttemptCounts
    /\ cliPc = "start"
    /\ cliAttempt = 0
    /\ cliI = 0
    /\ cliCalls = NoCalls
    /\ cliSigned = NotSigned
    /\ cliRequest = NoCliRequest
    /\ cliSubmitted = << >>
    /\ cliErr = "none"
    /\ cliExit = "running"

\* main().catch((err) => { console.error(err); process.exit(1); })
CliExitOnError_Zero == "0"
CliExitOnError == "1"

\* An error escapes main.
CliThrow_Swallowed(cause) ==
    /\ cliErr' = cause
    /\ cliExit' = "running"
    /\ cliPc' = "estimate"
CliThrow(cause) ==
    /\ cliErr' = cause
    /\ cliExit' = CliExitOnError
    /\ cliPc' = "exited"

\* main returns.
CliReturn ==
    /\ cliExit' = "0"
    /\ cliPc' = "exited"
    /\ UNCHANGED cliErr

CliGoto(pc) ==
    /\ cliPc' = pc
    /\ UNCHANGED <<cliErr, cliExit>>

\* if (taskIdFromArgs)
StatusOnly_Never(taskId) == FALSE
StatusOnly(taskId) == Truthy(taskId)

\* waitForTaskFinal at the head of its loop with index i, as a script calls
\* it: the next getTaskStatus is called, or the function returns and main
\* with it.
CliWaitHead(i) ==
    IF PollLoopCond(i, Whole(cliPolls))
    THEN /\ CliGoto("poll")
         /\ cliCalls' = [cliCalls EXCEPT !.status = @ + 1]
    ELSE /\ IF PollAfterLoop = "returned" THEN CliReturn ELSE CliThrow("poll")
         /\ UNCHANGED cliCalls

\* The status check of a script for a known task id: waitForTaskFinal in
\* the two scripts built on relayHelpers, one fetchAndReportStatus in the
\* standalone script.
CliStatusCheck ==
    IF cliScript = "standalone"
    THEN /\ CliGoto("report")
         /\ cliCalls' = [cliCalls EXCEPT !.status = @ + 1]
    ELSE CliWaitHead(0)

\* main up to its first await: configuration is read (a missing variable
\* throws); with a task id only the status is checked; otherwise the four
\* metadata reads are issued.
CliStart ==
    /\ cliPc = "start"
    /\ IF ~cliEnvOk
       THEN CliThrow("config") /\ UNCHANGED cliCalls
       ELSE IF StatusOnly(cliTaskId)
            THEN CliStatusCheck
            ELSE /\ CliGoto("reads")
                 /\ cliCalls' = [cliCalls EXCEPT !.read = @ + 4]
    /\ UNCHANGED <<cliScript, cliEnvOk, cliTaskId, cliAmountInput, cliBalance, cliRetries,
                   cliPolls, cliAttempt, cliI, cliSigned, cliRequest, cliSubmitted>>
    /\ UNCHANGED <<retryVars, pollVars, feeVars, buildVars, frontVars, sigVars>>

\* The metadata reads settle: a rejection escapes main; otherwise
\* parseUnits(amountInput, decimals) runs, throwing on malformed text, and
\* signTypedData is requested for the parsed amount.
CliReadsSettle(ok) ==
    /\ cliPc = "reads"
    /\ IF ~ok
       THEN CliThrow("read") /\ UNCHANGED cliCalls
       ELSE IF ~cliAmountInput.ok
            THEN CliThrow("parse") /\ UNCHANGED cliCalls
            ELSE /\ CliGoto("sign")
                 /\ cliCalls' = [cliCalls EXCEPT !.sign = @ + 1]
    /\ UNCHANGED <<cliScript, cliEnvOk, cliTaskId, cliAmountInput, cliBalance, cliRetries,
                   cliPolls, cliAttempt, cliI, cliSigned, cliRequest, cliSubmitted>>
    /\ UNCHANGED <<retryVars, pollVars, feeVars, buildVars, frontVars, sigVars>>

\* signTypedData settles: a rejection escapes main; otherwise the permit
\* for the parsed amount exists and getEstimatedFee is called.
CliSignSettle(ok) ==
    /\ cliPc = "sign"
    /\ IF ~ok
       THEN CliThrow("sign") /\ UNCHANGED <<cliCalls, cliSigned>>
       ELSE /\ cliSigned' = [signed |-> TRUE, amount |-> cliAmountInput.units]
            /\ CliGoto("estimate")
            /\ cliCalls' = [cliCalls EXCEPT !.estimate = @ + 1]
    /\ UNCHANGED <<cliScript, cliEnvOk, cliTaskId, cliAmountInput, cliBalance, cliRetries,
                   cliPolls, cliAttempt, cliI, cliRequest, cliSubmitted>>
    /\ UNCHANGED <<retryVars, pollVars, feeVars, buildVars, frontVars, sigVars>>

\* The fee formula a script uses.
CliFeeVariant(script) == IF script = "payFeeNative" THEN "payFeeNative" ELSE "feeCapped"

\* const request: CallWithSyncFeeRequest = { chainId, target, data, feeToken, ... }
CliBuildRequest(script, amount, fee) ==
    [chainId |-> "chainId",
     target |-> "target",
     feeToken |-> IF script = "payFeeNative" THEN "NATIVE_TOKEN" ELSE "feeToken",
     data |-> [functionName |-> IF script = "payFeeNative" THEN "permitSwapAndPayFeeNative"
                                ELSE "incrementWithPermitFeeCapped",
               amount |-> amount,
               maxFee |-> MaxFeeOf(CliFeeVariant(script), fee, DefaultFeeBufferBps)]]

\* () => relay.callWithSyncFee(request, { gasLimit }, sponsorApiKey): what
\* invocation number a of the closure hands to the relay.
CliSubmission_Restamped(request, a) ==
    [request |-> [request EXCEPT !.data.maxFee = @ + a], gasLimit |-> "gasLimit",
     apiKey |-> "sponsorApiKey"]
CliSubmission(request, a) ==
    [request |-> request, gasLimit |-> "gasLimit", apiKey |-> "sponsorApiKey"]

\* retry at the head of its loop with attempt number a: the closure is
\* invoked, or the loop is over and lastErr is thrown.
CliRetryHead(request, a) ==
    IF RetryLoopCond(a, Whole(cliRetries))
    THEN /\ CliGoto("submit")
         /\ cliCalls' = [cliCalls EXCEPT !.submit = @ + 1]
         /\ cliSubmitted' = Append(cliSubmitted, CliSubmission(request, a))
    ELSE /\ CliThrow("submit")
         /\ UNCHANGED <<cliCalls, cliSubmitted>>

\* getEstimatedFee settles: a rejection escapes main; otherwise the request
\* is built and handed to callWithSyncFee, through retry in the two scripts
\* built on relayHelpers and directly in the standalone script.
CliEstimateSettle(ok, fee) ==
    /\ cliPc = "estimate"
    /\ IF ~ok
       THEN CliThrow("estimate") /\ UNCHANGED <<cliCalls, cliRequest, cliSubmitted>>
       ELSE /\ cliRequest' = CliBuildRequest(cliScript, cliSigned.amount, fee)
            /\ IF cliScript = "standalone"
               THEN /\ CliGoto("submit")
                    /\ cliCalls' = [cliCalls EXCEPT !.submit = @ + 1]
                    /\ cliSubmitted' = Append(cliSubmitted, CliSubmission(cliRequest', 0))
               ELSE CliRetryHead(cliRequest', 0)
    /\ UNCHANGED <<cliScript, cliEnvOk, cliTaskId, cliAmountInput, cliBalance, cliRetries,
                   cliPolls, cliAttempt, cliI, cliSigned>>
    /\ UNCHANGED <<retryVars, pollVars, feeVars, buildVars, frontVars, sigVars>>

\* callWithSyncFee resolves: the task id is known and its status is checked.
CliSubmitResolve ==
    /\ cliPc = "submit"
    /\ CliStatusCheck
    /\ UNCHANGED <<cliScript, cliEnvOk, cliTaskId, cliAmountInput, cliBalance, cliRetries,
                   cliPolls, cliAttempt, cliI, cliSigned, cliRequest, cliSubmitted>>
    /\ UNCHANGED <<retryVars, pollVars, feeVars, buildVars, frontVars, sigVars>>

\* callWithSyncFee rejects with err.  The standalone script lets it escape.
\* retry throws it after the final attempt, throws a TypeError when its log
\* line reads .message of an undefined err, and sleeps otherwise.
CliSubmitReject(err) ==
    /\ cliPc = "submit"
    /\ IF cliScript = "standalone"
       THEN CliThrow("submit")
       ELSE IF RetryIsLastAttempt(cliAttempt, Whole(cliRetries))
            THEN CliThrow("submit")
            ELSE IF RetryWarnThrows(err)
                 THEN CliThrow("submit")
                 ELSE CliGoto("retrySleep")
    /\ UNCHANGED <<cliScript, cliEnvOk, cliTaskId, cliAmountInput, cliBalance, cliRetries,
                   cliPolls, cliAttempt, cliI, cliCalls, cliSigned, cliRequest, cliSubmitted>>
    /\ UNCHANGED <<retryVars, pollVars, feeVars, buildVars, frontVars, sigVars>>

\* await sleep(delayMs); attempt++ and the loop test of retry.
CliRetrySleep ==
    /\ cliPc = "retrySleep"
    /\ cliAttempt' = cliAttempt + 1
    /\ CliRetryHead(cliRequest, cliAttempt + 1)
    /\ UNCHANGED <<cliScript, cliEnvOk, cliTaskId, cliAmountInput, cliBalance, cliRetries,
                   cliPolls, cliI, cliSigned, cliRequest>>
    /\ UNCHANGED <<retryVars, pollVars, feeVars, buildVars, frontVars, sigVars>>

\* One getTaskStatus of waitForTaskFinal settles with out: a final response
\* returns, a rejection is logged, and anything but a return sleeps.
CliPollSettle(out) ==
    /\ cliPc = "poll"
    /\ IF out.kind = "error"
       THEN IF PollAfterFailure = "sleep" THEN CliGoto("pollSleep") ELSE CliThrow("poll")
       ELSE IF IsFinal(out) THEN CliReturn ELSE CliGoto("pollSleep")
    /\ UNCHANGED <<cliScript, cliEnvOk, cliTaskId, cliAmountInput, cliBalance, cliRetries,
                   cliPolls, cliAttempt, cliI, cliCalls, cliSigned, cliRequest, cliSubmitted>>
    /\ UNCHANGED <<retryVars, pollVars, feeVars, buildVars, frontVars, sigVars>>

\* await sleepMs(intervalMs); i++ and the loop test of waitForTaskFinal.
CliPollSleep ==
    /\ cliPc = "pollSleep"
    /\ cliI' = cliI + 1
    /\ CliWaitHead(cliI + 1)
    /\ UNCHANGED <<cliScript, cliEnvOk, cliTaskId, cliAmountInput, cliBalance, cliRetries,
                   cliPolls, cliAttempt, cliSigned, cliRequest, cliSubmitted>>
    /\ UNCHANGED <<retryVars, pollVars, feeVars, buildVars, frontVars, sigVars>>

\* fetchAndReportStatus of the standalone script settles: the status is
\* printed or the rejection is logged, and main returns.
CliReportSettle(out) ==
    /\ cliPc = "report"
    /\ CliReturn
    /\ UNCHANGED <<cliScript, cliEnvOk, cliTaskId, cliAmountInput, cliBalance, cliRetries,
                   cliPolls, cliAttempt, cliI, cliCalls, cliSigned, cliRequest, cliSubmitted>>
    /\ UNCHANGED <<retryVars, pollVars, feeVars, buildVars, frontVars, sigVars>>

NextCli ==
    \/ CliStart
    \/ \E ok \in BOOLEAN : CliReadsSettle(ok)
    \/ \E ok \in BOOLEAN : CliSignSettle(ok)
    \/ \E ok \in BOOLEAN, fee \in CliEstimatedFees : CliEstimateSettle(ok, fee)
    \/ CliSubmitResolve
    \/ \E err \in FnErrors : CliSubmitReject(err)
    \/ CliRetrySleep
    \/ \E out \in CliStatusOutcomes : CliPollSettle(out)
    \/ CliPollSleep
    \/ \E out \in CliStatusOutcomes : CliReportSettle(out)

(***************************************************************************)
(* splitSignature                                                          *)
(***************************************************************************)
\* A string is a sequence of one-character strings.
HexLower == <<"0", "1", "2", "3", "4", "5", "6", "7", "8", "9", "a", "b", "c", "d", "e", "f">>
HexUpper == <<"0", "1", "2", "3", "4", "5", "6", "7", "8", "9", "A", "B", "C", "D", "E", "F">>

IsHex(c) == \E d \in 1..16 : HexLower[d] = c \/ HexUpper[d] = c
HexVal(c) == (CHOOSE d \in 1..16 : HexLower[d] = c \/ HexUpper[d] = c) - 1

\* The hex text a signer returns for a byte sequence, in one letter case.
RECURSIVE HexOf(_, _)
HexOf(bytes, digits) ==
    IF bytes = << >> THEN << >>
    ELSE <<digits[(Head(bytes) \div 16) + 1], digits[(Head(bytes) % 16) + 1]>>
             \o HexOf(Tail(bytes), digits)

\* The signatures of the model: 65 bytes, every value in the last one, both
\* extremes at the ends of the first two 32-byte words, and bytes that
\* depend on their position everywhere else.
SigEdgeBytes == {0, 255}
SigSignatures ==
    {[i \in 1..65 |-> IF i = 1 THEN a
                      ELSE IF i = 32 THEN b
                      ELSE IF i = 33 THEN c
                      ELSE IF i = 64 THEN d
                      ELSE IF i = 65 THEN v
                      ELSE (i * 37) % 256] :
        a \in SigEdgeBytes, b \in SigEdgeBytes, c \in SigEdgeBytes, d \in SigEdgeBytes,
        v \in 0..255}

NoSig == [r |-> << >>, s |-> << >>, v |-> 0]

SigIdle ==
    /\ sigBytes = << >>
    /\ sigInput = << >>
    /\ sigPc = "off"
    /\ sigOut = NoSig

\* splitSignature is called with the hex text of a signature, with or
\* without the 0x prefix.
InitSig ==
    /\ sigBytes \in SigSignatures
    /\ \E prefix \in {<<"0", "x">>, << >>}, digits \in {HexLower, HexUpper} :
           sigInput = prefix \o HexOf(sigBytes, digits)
    /\ sigPc = "called"
    /\ sigOut = NoSig

\* signature.startsWith("0x")
StartsWith0x(str) == Len(str) >= 2 /\ str[1] = "0" /\ str[2] = "x"

\* str.slice(from, to) and str.slice(from), for 0 <= from <= to.
Slice(str, from, to) == SubSeq(str, from + 1, IF to < Len(str) THEN to ELSE Len(str))
SliceFrom(str, from) == SubSeq(str, from + 1, Len(str))

\* Number.parseInt(str, 16): an optional 0x, then the longest run of hex
\* digits; NaN when there is none.
NaN == "NaN"
RECURSIVE ParseHexDigits(_, _)
ParseHexDigits(str, acc) ==
    IF str = << >> \/ ~IsHex(Head(str)) THEN acc
    ELSE ParseHexDigits(Tail(str), acc * 16 + HexVal(Head(str)))
ParseInt16(str) ==
    LET digits == IF StartsWith0x(str) THEN SliceFrom(str, 2) ELSE str
    IN  IF digits = << >> \/ ~IsHex(Head(digits)) THEN NaN ELSE ParseHexDigits(digits, 0)

\* const raw = signature.startsWith("0x") ? signature.slice(2) : signature
SigRaw_KeepPrefix(signature) == signature
SigRaw(signature) == IF StartsWith0x(signature) THEN SliceFrom(signature, 2) ELSE signature

\* const v = Number.parseInt(raw.slice(128, 130), 16)
SigV_Normalised(raw) ==
    LET v == ParseInt16(Slice(raw, 128, 130)) IN IF v < 27 THEN v + 27 ELSE v
SigV(raw) == ParseInt16(Slice(raw, 128, 130))

SplitSignature(signature) ==
    LET raw == SigRaw(signature)
    IN  [r |-> <<"0", "x">> \o Slice(raw, 0, 64),
         s |-> <<"0", "x">> \o Slice(raw, 64, 128),
         v |-> SigV(raw)]

SplitSignatureCall ==
    /\ sigPc = "called"
    /\ sigOut' = SplitSignature(sigInput)
    /\ sigPc' = "returned"
    /\ UNCHANGED <<sigBytes, sigInput>>
    /\ UNCHANGED <<retryVars, pollVars, feeVars, buildVars, frontVars, cliVars>>

NextSig == SplitSignatureCall

(***************************************************************************)
(* Properties of the front end                                             *)
(***************************************************************************)
\* An amount text that fails validation against the loaded balance.
FailsValidation(text, loaded, balance) ==
    \/ ~text.ok
    \/ text.units <= 0
    \/ (loaded /\ text.units > balance)

\* C11: a handleSubmit invocation whose amount is malformed, not positive or
\* above the loaded balance ends with an error message set, has issued no
\* network call of any kind, and leaves isSubmitting, logs and task as they
\* were.
C11_RejectedWithoutNetworkCall ==
    [][\A text \in AmountTexts :
           (HandleSubmit(text) /\ FailsValidation(text, tokenLoaded, tokenBalance))
               => /\ error' # NoError
                  /\ frontCalls' = NoCalls
                  /\ frontPc' = "idle"
                  /\ isSubmitting' = isSubmitting
                  /\ logs' = logs
                  /\ task' = task]_vars

\* An amount above the balance was just rejected, with logs and a task of
\* an earlier submission on display.
C11_Witness ==
    /\ frontPc = "idle"
    /\ error = BalanceCheckMessage(frontVariant)
    /\ frontAmountInput.ok
    /\ frontAmountInput.units > tokenBalance
    /\ frontCalls = NoCalls
    /\ task.id = FrontTaskId
    /\ Len(logs) > 1

\* C14: pollTask stops polling as soon as a status response carries a
\* transaction hash or a task state of the terminal vocabulary: it never
\* goes to sleep for another round after such a response.
C14_FrontPollStopsAtTerminal ==
    frontPc = "pollSleep" => ~TerminalObservation(frontObs)

FrontOtherVariant(variant) == IF variant = "App" THEN "part000" ELSE "App"

\* Whether a variant lets a well-formed amount through, wallet, API key and
\* balance being in place.
FrontAccepts(variant, text, balance) ==
    SubmitRejection(variant, TRUE, TRUE, TRUE, text, balance) = NoError

\* C20 as stated: on a well-formed amount the two variants decide
\* differently exactly when the amount equals the balance.
C20_VariantsDifferAtEquality ==
    [][\A text \in AmountTexts :
           (HandleSubmit(text) /\ wallet /\ relayApiKey /\ tokenLoaded /\ text.ok)
               => ((frontPc' = "build")
                       # FrontAccepts(FrontOtherVariant(frontVariant), text, tokenBalance))
                  <=> (text.units = tokenBalance)]_vars

\* C20, amended: App.tsx accepts exactly the amounts with 0 < amount <=
\* balance and the older variant exactly those with 0 < amount < balance, so
\* the two decide differently exactly when amount = balance > 0; at amount =
\* balance = 0 both reject.
C20_VariantsDifferAtPositiveEquality ==
    [][\A text \in AmountTexts :
           (HandleSubmit(text) /\ wallet /\ relayApiKey /\ tokenLoaded /\ text.ok)
               => /\ (frontPc' = "build") <=>
                         IF frontVariant = "App"
                         THEN 0 < text.units /\ text.units <= tokenBalance
                         ELSE 0 < text.units /\ text.units < tokenBalance
                  /\ ((frontPc' = "build")
                          # FrontAccepts(FrontOtherVariant(frontVariant), text, tokenBalance))
                      <=> (text.units = tokenBalance /\ text.units > 0)]_vars

\* App.tsx has accepted an amount equal to the balance and is building the
\* permit for it.
C20_Witness ==
    /\ frontVariant = "App"
    /\ frontPc = "build"
    /\ parsedAmount = tokenBalance
    /\ isSubmitting

(***************************************************************************)
(* Properties of the command-line scripts                                  *)
(***************************************************************************)
\* C12: no permit is signed for a zero amount or for more than the signer's
\* balance: whenever a script has a signed permit, its amount is positive
\* and at most the balance.
C12_SignedAmountWithinBalance ==
    cliSigned.signed => (cliSigned.amount > 0 /\ cliSigned.amount <= cliBalance)

\* C13: a script lets a failed callWithSyncFee submission surface only after
\* the configured number of retries: when main has ended on a submission
\* failure, cliRetries + 1 submissions were made.
C13_SubmissionRetriedBeforeFailure ==
    (cliExit = "1" /\ cliErr = "submit") => Len(cliSubmitted) = cliRetries + 1

\* C15: a script started with a task id performs no metadata read, requests
\* no signature and no fee estimate and submits nothing; it is only ever
\* starting, checking the status or exited.
C15_TaskIdOnlyChecksStatus ==
    cliTaskId \notin {Undefined, ""} =>
        /\ cliCalls.read = 0
        /\ cliCalls.sign = 0
        /\ cliCalls.estimate = 0
        /\ cliCalls.submit = 0
        /\ cliSubmitted = << >>
        /\ ~cliSigned.signed
        /\ cliPc \in {"start", "poll", "pollSleep", "report", "exited"}

\* A script given a task id has queried the status and exited normally.
C15_Witness ==
    /\ cliTaskId = "task0"
    /\ cliEnvOk
    /\ cliCalls.status >= 1
    /\ cliExit = "0"

\* C16: every attempt of a retried submission hands the relay what the
\* first attempt did: the same chainId, target, data, feeToken, gasLimit and
\* API key; and once submission has begun the reads, the signature and the
\* fee estimate are those made before it: four reads, one signature, one
\* estimate.
C16_RetriedRequestIdentical ==
    /\ \A i \in 1..Len(cliSubmitted) :
           /\ cliSubmitted[i].request.chainId = cliSubmitted[1].request.chainId
           /\ cliSubmitted[i].request.target = cliSubmitted[1].request.target
           /\ cliSubmitted[i].request.data = cliSubmitted[1].request.data
           /\ cliSubmitted[i].request.feeToken = cliSubmitted[1].request.feeToken
           /\ cliSubmitted[i].gasLimit = cliSubmitted[1].gasLimit
           /\ cliSubmitted[i].apiKey = cliSubmitted[1].apiKey
    /\ Len(cliSubmitted) >= 1 =>
           /\ cliCalls.read = 4
           /\ cliCalls.sign = 1
           /\ cliCalls.estimate = 1

\* A script has made a third submission attempt.
C16_Witness ==
    /\ cliScript \in {"feeCapped", "payFeeNative"}
    /\ Len(cliSubmitted) >= 3
    /\ cliCalls.submit = Len(cliSubmitted)
    /\ cliRequest.data.maxFee > 0

\* C17: a script exits with a non-zero code exactly when an error escaped
\* main; once it has queried a task's status nothing makes it exit non-zero,
\* neither a failed query nor running out of polls.
C17_ExitCode ==
    /\ (cliErr # "none") <=> (cliExit = "1")
    /\ cliPc = "exited" <=> cliExit \in {"0", "1"}
    /\ cliCalls.status > 0 => cliExit # "1"

\* A script has submitted, used up all its polls without a final status,
\* and exited with code 0.
C17_Witness ==
    /\ cliPc = "exited"
    /\ cliExit = "0"
    /\ cliSubmitted # << >>
    /\ cliPolls >= 2
    /\ cliI = cliPolls
    /\ cliCalls.status = cliPolls

RECURSIVE HexToBytes(_)
HexToBytes(hex) ==
    IF Len(hex) < 2 THEN << >>
    ELSE <<IF IsHex(hex[1]) /\ IsHex(hex[2])
           THEN HexVal(hex[1]) * 16 + HexVal(hex[2])
           ELSE -1>> \o HexToBytes(SubSeq(hex, 3, Len(hex)))

\* r ++ s ++ v, with v as one byte.
Reassemble(sig) ==
    HexToBytes(SubSeq(sig.r, 3, Len(sig.r))) \o HexToBytes(SubSeq(sig.s, 3, Len(sig.s)))
        \o <<sig.v>>

\* The same signature text in the other form: prefix removed or added.
OtherForm(signature) ==
    IF signature[2] = "x" THEN SubSeq(signature, 3, Len(signature))
    ELSE <<"0", "x">> \o signature

\* C18: splitting a 65-byte signature and putting r, s and v back together
\* gives the 65 bytes that were signed, and the prefixed and the unprefixed
\* text of a signature split into the same result.
C18_SplitRoundTrip ==
    sigPc = "returned" =>
        /\ Reassemble(sigOut) = sigBytes
        /\ SplitSignature(OtherForm(sigInput)) = sigOut

\* A prefixed signature whose last byte is 28 has been split.
C18_Witness ==
    /\ sigPc = "returned"
    /\ StartsWith0x(sigInput)
    /\ Len(sigInput) = 132
    /\ sigBytes[65] = 28

\* C19: r is the text of bytes [0,32), s of bytes [32,64), and v is byte 64
\* as an unsigned integer, whatever its value.
C19_FixedLayoutNoValidation ==
    sigPc = "returned" =>
        /\ SubSeq(sigOut.r, 1, 2) = <<"0", "x">>
        /\ HexToBytes(SubSeq(sigOut.r, 3, Len(sigOut.r))) = SubSeq(sigBytes, 1, 32)
        /\ SubSeq(sigOut.s, 1, 2) = <<"0", "x">>
        /\ HexToBytes(SubSeq(sigOut.s, 3, Len(sigOut.s))) = SubSeq(sigBytes, 33, 64)
        /\ sigOut.v = sigBytes[65]

\* A signature whose last byte is 0, none of 27 and 28, has been split and
\* v is 0.
C19_Witness ==
    /\ sigPc = "returned"
    /\ sigBytes[65] = 0
    /\ sigOut.v = 0

(***************************************************************************)
(* Specifications                                                          *)
(***************************************************************************)
InitRetrySpec == InitRetry /\ PollIdle /\ FeeIdle /\ BuildIdle /\ FrontIdle /\ CliIdle /\ SigIdle
SpecRetry == InitRetrySpec /\ [][NextRetry]_vars

InitRetryEnvSpec ==
    InitRetryEnv /\ PollIdle /\ FeeIdle /\ BuildIdle /\ FrontIdle /\ CliIdle /\ SigIdle
SpecRetryEnv == InitRetryEnvSpec /\ [][NextRetry]_vars

InitPollSpec == InitPoll /\ RetryIdle /\ FeeIdle /\ BuildIdle /\ FrontIdle /\ CliIdle /\ SigIdle
SpecPoll == InitPollSpec /\ [][NextPoll]_vars

InitPollLogSpec ==
    InitPollLog /\ RetryIdle /\ FeeIdle /\ BuildIdle /\ FrontIdle /\ CliIdle /\ SigIdle
SpecPollLog == InitPollLogSpec /\ [][NextPoll]_vars

\* Each getTaskStatus call and each sleep completes: a pending step of the
\* loop is eventually taken.
InitPollNumSpec ==
    InitPollNum /\ RetryIdle /\ FeeIdle /\ BuildIdle /\ FrontIdle /\ CliIdle /\ SigIdle
SpecPollNum == InitPollNumSpec /\ [][NextPoll]_vars /\ WF_vars(NextPoll)

InitFeeSpec == InitFee /\ RetryIdle /\ PollIdle /\ BuildIdle /\ FrontIdle /\ CliIdle /\ SigIdle
SpecFee == InitFeeSpec /\ [][NextFee]_vars

InitBuildSpec == InitBuild /\ RetryIdle /\ PollIdle /\ FeeIdle /\ FrontIdle /\ CliIdle /\ SigIdle
SpecBuild == InitBuildSpec /\ [][NextBuild]_vars

InitJoinSpec == InitJoin /\ RetryIdle /\ PollIdle /\ FeeIdle /\ FrontIdle /\ CliIdle /\ SigIdle
SpecJoin == InitJoinSpec /\ [][NextBuild]_vars

InitFrontSpec == InitFront /\ RetryIdle /\ PollIdle /\ FeeIdle /\ BuildIdle /\ CliIdle /\ SigIdle
SpecFront == InitFrontSpec /\ [][NextFront]_vars

InitCliSpec ==
    InitCli /\ RetryIdle /\ PollIdle /\ FeeIdle /\ BuildIdle /\ FrontIdle /\ SigIdle
SpecCli == InitCliSpec /\ [][NextCli]_vars

InitSigSpec ==
    InitSig /\ RetryIdle /\ PollIdle /\ FeeIdle /\ BuildIdle /\ FrontIdle /\ CliIdle
SpecSig == InitSigSpec /\ [][NextSig]_vars

InitFlowsSpec == InitFrontSpec \/ InitCliSpec
NextFlows == NextFront \/ NextCli
SpecFlows == InitFlowsSpec /\ [][NextFlows]_vars

Init ==
    \/ InitRetrySpec \/ InitRetryEnvSpec \/ InitPollSpec \/ InitPollNumSpec \/ InitPollLogSpec \/ InitFeeSpec \/ InitBuildSpec \/ InitJoinSpec
    \/ InitFrontSpec \/ InitCliSpec \/ InitSigSpec
Next == NextRetry \/ NextPoll \/ NextFee \/ NextBuild \/ NextFront \/ NextCli \/ NextSig
Spec == Init /\ [][Next]_vars
====
